---- MODULE Spec2Model ----
(***************************************************************************)
(* Survey App server (src/main.py): the request handlers of the FastAPI    *)
(* application and the two MongoDB collections (Users, Forms) they use.    *)
(*                                                                         *)
(* Every collection operation (find_one, find, insert_one, update_one,     *)
(* find_one_and_update) is one atomic step of the store.  A handler that   *)
(* makes several collection operations is a handler action that advances   *)
(* through them, one per step, so requests served by different workers     *)
(* interleave between their collection operations.                         *)
(***************************************************************************)
EXTENDS Integers, Sequences, FiniteSets, TLC

\* ------------------------------------------------------------------ bounds
\* Requests the server accepts in one run on an empty database.
MaxRequests == 3
\* Requests the server accepts in one run on a database that holds a Form.
MaxSeededRequests == 2
\* Entries in one submitted list of answers.
MaxBatch == 2

\* ------------------------------------------------------------------ inputs
Workers == {"w1", "w2"}
Usernames == {"u1", "u2"}
Passwords == {"p1", "p2"}
FormNames == {"", "n1"}
NoDescription == "<None>"
Descriptions == {NoDescription, "d1"}
QuestionNames == {"q1", "q2"}
AnswerTexts == {"a1", "a2"}

\* --------------------------------------------------------- python values
\* Python's None where a document (dict) is expected.
None == [none |-> TRUE]

\* A bson ObjectId and a str are values of different types: an ObjectId
\* never equals a str, whatever the str holds.
ObjectId(n) == <<"ObjectId", n>>

\* str(x): the hexadecimal text of an ObjectId; a str is left as it is.
Str(x) == <<"str", x[2]>>

\* The empty string, as a form id.
EmptyStr == <<"str", 0>>

\* A form id that is the text of no ObjectId of the store.
UnknownId == <<"str", -1>>

Has(d, k) == k \in DOMAIN d

\* d[k] = v on a dict.
SetField(d, k, v) == [f \in DOMAIN d \cup {k} |-> IF f = k THEN v ELSE d[f]]

InSeq(x, s) == \E i \in 1..Len(s) : s[i] = x

\* ---------------------------------------------------------- argon2 hasher
\* PasswordHasher.hash: one-way, opaque.
Hash(p) == <<"argon2", p>>

\* PasswordHasher.verify: raises VerifyMismatchError unless the hash was made
\* from the password.
Verify(h, p) == h = Hash(p)

\* ------------------------------------------------------ collection (pymongo)
\* A filter {k: v} matches a document that has field k with value v.
Matches(d, k, v) == Has(d, k) /\ d[k] = v

FindIdx(coll, k, v) ==
  IF \E i \in 1..Len(coll) : Matches(coll[i], k, v)
  THEN CHOOSE i \in 1..Len(coll) :
         /\ Matches(coll[i], k, v)
         /\ \A j \in 1..(i - 1) : ~Matches(coll[j], k, v)
  ELSE 0

find_one(coll, k, v) ==
  LET i == FindIdx(coll, k, v) IN IF i = 0 THEN None ELSE coll[i]

find(coll, k, v) == SelectSeq(coll, LAMBDA d : Matches(d, k, v))

\* insert_one stores the document under a fresh ObjectId (and sets data["_id"]).
insert_one(coll, data, oid) == Append(coll, SetField(data, "_id", oid))

\* update_one / find_one_and_update with {"$set": {field: val}}: the first
\* matching document is updated; nothing happens when none matches.
update_one(coll, k, v, field, val) ==
  LET i == FindIdx(coll, k, v)
  IN IF i = 0 THEN coll ELSE [coll EXCEPT ![i] = SetField(@, field, val)]

\* update_one with {"$set": {"questions.<i>.answers": val}} (i counted from 1
\* here, from 0 in the source): element i of the stored questions array gets
\* its answers field set; the rest of the stored document is left as it is.
update_one_answers(coll, k, v, i, val) ==
  LET n == FindIdx(coll, k, v)
  IN IF n = 0 THEN coll
     ELSE [coll EXCEPT ![n] =
             SetField(@, "questions",
                      [@["questions"] EXCEPT ![i] = SetField(@, "answers", val)])]

\* ------------------------------------------------------------------- state
VARIABLES
  users,   \* Users collection: sequence of documents, in insertion order
  forms,   \* Forms collection: sequence of documents, in insertion order
  pc,      \* per worker: "idle", or the collection operation its handler makes next
  loc,     \* per worker: the handler's arguments and local variables
  last,    \* the last completed request: handler, its locals, its response
  budget   \* number of requests the server still accepts

vars == <<users, forms, pc, loc, last, budget>>

\* The next ObjectId the store generates (unique: nothing is ever deleted).
NewObjectId == ObjectId(Len(users) + Len(forms) + 1)

\* --------------------------------------------------------------- responses
NoBody == <<>>
Ok(body) == [status |-> 200, error |-> "", body |-> body]
Error400(msg) == [status |-> 400, error |-> msg, body |-> NoBody]
\* An exception no handler catches: the framework answers 500.
Unhandled(exc) == [status |-> 500, error |-> exc, body |-> NoBody]

ErrUsernameFound == "The username has been found, please try another username"
ErrUserNotFoundLogin == "User not found, please register"
ErrMismatch == "The username and password doesn't match"
ErrUsernameNotFound == "Username not found"
ErrUserNotFound == "User not found"
ErrBlankName == "The name of the form is blank, please try again"
ErrBlankFormId == "The form id is blank, please try again with the form form id"
ErrFormNotFound == "The form is not found"
ErrAnotherQuestion == "Another question exists, please try again with another question"
ErrAnswersBlank == "The answers are blank"
ErrNotDict == "The answer should be in a dictionary/JSON"
ErrBlank == "The question or the answer is blank"
ErrNoQuestions == "The user haven't created a question in the form yet, please try again"
ErrNotInForm == "The question is not in the form"

Idle == [op |-> "idle"]

\* The handler of worker w returns resp.
Respond(w, l, resp) ==
  /\ pc' = [pc EXCEPT ![w] = "idle"]
  /\ loc' = [loc EXCEPT ![w] = Idle]
  /\ last' = [op |-> l.op, loc |-> l, resp |-> resp]

\* The handler of worker w goes on to its next collection operation.
Goto(w, l, label) ==
  /\ pc' = [pc EXCEPT ![w] = label]
  /\ loc' = [loc EXCEPT ![w] = l]
  /\ UNCHANGED last

\* The framework hands a request to an idle worker.
Accept(w) ==
  /\ pc[w] = "idle"
  /\ budget > 0
  /\ budget' = budget - 1

\* ---------------------------------------------------------------- find_user
\* (a lookup that never finds the user)
find_user_never(username) == None

find_user(username) == find_one(users, "username", username)

\* ------------------------------------------------------------ register_user
\* find_user and the duplicate check.
register_find(w, username, password) ==
  LET user_founded == find_user(username)
      l == [op |-> "register_user", username |-> username,
            password |-> password, user_founded |-> user_founded]
  IN /\ Accept(w)
     /\ UNCHANGED <<users, forms>>
     /\ IF user_founded # None
        THEN Respond(w, l, Error400(ErrUsernameFound))
        ELSE Goto(w, l, "register_insert")

\* hasher.hash, insert_one, and the reply.
register_insert(w) ==
  LET l == loc[w]
      oid == NewObjectId
      data == [username |-> l.username, password |-> Hash(l.password)]
  IN /\ pc[w] = "register_insert"
     /\ users' = insert_one(users, data, oid)
     /\ UNCHANGED <<forms, budget>>
     /\ Respond(w, l, Ok(SetField(data, "_id", Str(oid))))

register_user(w) ==
  IF pc[w] = "idle"
  THEN \E username \in Usernames :
         register_find(w, username, "p1")
  ELSE register_insert(w)

\* --------------------------------------------------------------- login_user
login_user(w) ==
  \E username \in Usernames, password \in Passwords :
    LET user_founded == find_user(username)
        l == [op |-> "login_user", username |-> username,
              password |-> password, user_founded |-> user_founded]
    IN /\ Accept(w)
       /\ UNCHANGED <<users, forms>>
       /\ IF user_founded = None
          THEN Respond(w, l, Error400(ErrUserNotFoundLogin))
          ELSE IF ~Verify(user_founded["password"], password)
          THEN Respond(w, l, Error400(ErrMismatch))
          ELSE Respond(w, l, Ok([status |-> "OK"]))

\* ----------------------------------------------------------------- get_user
get_user_find_user(w, username) ==
  LET username_found == find_user(username)
      l == [op |-> "get_user", username |-> username]
  IN /\ Accept(w)
     /\ UNCHANGED <<users, forms>>
     /\ IF username_found = None
        THEN Respond(w, l, Error400(ErrUsernameNotFound))
        ELSE Goto(w, l, "get_user_find")

\* The documents the handler asks the Forms collection for.
get_user_filter(username) == find(forms, "username", username)

get_user_find(w) ==
  LET l == loc[w]
      forms_found == get_user_filter(l.username)
      out == [i \in 1..Len(forms_found) |->
                SetField(forms_found[i], "_id", Str(forms_found[i]["_id"]))]
  IN /\ pc[w] = "get_user_find"
     /\ UNCHANGED <<users, forms, budget>>
     /\ Respond(w, l, Ok(out))

get_user(w) ==
  IF pc[w] = "idle"
  THEN \E username \in Usernames : get_user_find_user(w, username)
  ELSE get_user_find(w)

\* ---------------------------------------------------------------- post_form
\* (the blank-name check left out)
blank_name_never(name) == FALSE

\* if form.name == "":
blank_name(name) == name = ""

post_form_find_user(w, form) ==
  LET user_founded == find_user(form.author)
      l == [op |-> "post_form", form |-> form, user_founded |-> user_founded]
  IN /\ Accept(w)
     /\ UNCHANGED <<users, forms>>
     /\ IF user_founded = None
        THEN Respond(w, l, Error400(ErrUserNotFound))
        ELSE IF blank_name(form.name)
        THEN Respond(w, l, Error400(ErrBlankName))
        ELSE Goto(w, l, "post_form_insert")

\* The document post_form inserts.
post_form_data(form, user_founded) ==
  [author |-> user_founded["username"],
   name |-> form.name,
   description |-> IF form.description = NoDescription THEN "" ELSE form.description]

\* insert_one, then data["_id"] = str(data["_id"]).
post_form_insert(w) ==
  LET l == loc[w]
      oid == NewObjectId
      data == post_form_data(l.form, l.user_founded)
  IN /\ pc[w] = "post_form_insert"
     /\ forms' = insert_one(forms, data, oid)
     /\ UNCHANGED <<users, budget>>
     /\ Goto(w, SetField(l, "data", SetField(data, "_id", Str(oid))),
             "post_form_update")

\* The value post_form's find_one_and_update filters "_id" by: data["_id"],
\* which the line before has replaced by its str.
post_form_update_key(data) == data["_id"]

\* find_one_and_update({"_id": data["_id"]}, {"$set": {"id": str(data["_id"])}})
\* and the reply.
post_form_update(w) ==
  LET l == loc[w]
      data == l.data
  IN /\ pc[w] = "post_form_update"
     /\ forms' = update_one(forms, "_id", post_form_update_key(data),
                            "id", Str(data["_id"]))
     /\ UNCHANGED <<users, budget>>
     /\ Respond(w, l, Ok(data))

post_form(w) ==
  CASE pc[w] = "idle" ->
         \E author \in Usernames, name \in FormNames, description \in Descriptions :
           post_form_find_user(w, [author |-> author, name |-> name,
                                   description |-> description])
    [] pc[w] = "post_form_insert" -> post_form_insert(w)
    [] OTHER -> post_form_update(w)

\* ------------------------------------------------------------- add_question
\* The form ids a client can send: the empty string, the text of the store
\* identifier of a stored Form (what post_form returns as "_id"), or the text
\* of no stored identifier.
FormIds == {EmptyStr, UnknownId} \cup {Str(forms[i]["_id"]) : i \in 1..Len(forms)}

\* The lookup add_question and answer_form make: by the field "id".
find_form(form_id) == find_one(forms, "id", form_id)

\* The question document add_question appends.
new_question(name) == [name |-> name]

\* (the duplicate check left out)
question_exists_never(questions_founded, name) == FALSE

\* The loop over questions_founded: is there one with this name?
question_exists(questions_founded, name) ==
  \E i \in 1..Len(questions_founded) : questions_founded[i]["name"] = name

\* The checks, find_one, the duplicate loop, and the append to the local list
\* (questions_founded is form_founded["questions"] itself, not a copy).
add_question_find(w, question) ==
  LET form_founded == find_form(question.form_id)
      l == [op |-> "add_question", question |-> question,
            form_founded |-> form_founded]
  IN /\ Accept(w)
     /\ UNCHANGED <<users, forms>>
     /\ IF question.form_id = EmptyStr
        THEN Respond(w, l, Error400(ErrBlankFormId))
        ELSE IF form_founded = None
        THEN Respond(w, l, Error400(ErrFormNotFound))
        ELSE IF ~Has(form_founded, "questions")
        THEN Respond(w, l, Unhandled("KeyError"))
        ELSE IF question_exists(form_founded["questions"], question.name)
        THEN Respond(w, l, Error400(ErrAnotherQuestion))
        ELSE Goto(w, SetField(l, "questions_founded",
                              Append(form_founded["questions"],
                                     new_question(question.name))),
                  "add_question_update")

\* update_one({"id": form_id}, {"$set": {"questions": questions_founded}}) and
\* the reply: the Form as read, with the question appended.
add_question_update(w) ==
  LET l == loc[w]
      body == SetField(SetField(l.form_founded, "questions", l.questions_founded),
                       "_id", Str(l.form_founded["_id"]))
  IN /\ pc[w] = "add_question_update"
     /\ forms' = update_one(forms, "id", l.question.form_id,
                            "questions", l.questions_founded)
     /\ UNCHANGED <<users, budget>>
     /\ Respond(w, l, Ok(body))

add_question(w) ==
  IF pc[w] = "idle"
  THEN \E form_id \in FormIds, name \in QuestionNames :
         add_question_find(w, [form_id |-> form_id, name |-> name])
  ELSE add_question_update(w)

\* -------------------------------------------------------------- answer_form
\* An element of the submitted list: a dict, or a JSON value of another type.
Dict(d) == [type |-> "dict", val |-> d]
NotADict == [type |-> "str", val |-> [text |-> "x"]]

\* Well-formed entries: both keys present and non-empty.
WellFormed ==
  {Dict([question |-> "q1", answer |-> a]) : a \in AnswerTexts}
    \cup {Dict([question |-> "q2", answer |-> "a1"])}

\* Entries the handler rejects: a blank answer, a missing key, not a dict.
Malformed ==
  {Dict([question |-> "q1", answer |-> ""]), Dict([question |-> "q1"]), NotADict}

RECURSIVE SeqsUpTo(_, _)
SeqsUpTo(S, n) ==
  IF n = 0 THEN {<<>>}
  ELSE LET shorter == SeqsUpTo(S, n - 1)
       IN shorter \cup {Append(s, x) : s \in {t \in shorter : Len(t) = n - 1}, x \in S}

\* The submitted lists: the empty list, lists of well-formed entries, and a
\* malformed entry alone or followed by a well-formed one.
Batches ==
  SeqsUpTo(WellFormed, MaxBatch)
    \cup {<<e>> : e \in Malformed}
    \cup {<<NotADict, Dict([question |-> "q1", answer |-> "a1"])>>}

Return(resp) == [kind |-> "return", resp |-> resp]

\* question_names: the name of every question, in order.
question_names(questions) == [i \in 1..Len(questions) |-> questions[i]["name"]]

\* (the membership check left out)
not_in_form_never(question, names) == FALSE

\* if answer["question"] not in question_names:
not_in_form(question, names) == ~InSeq(question, names)

\* for i, question_name in enumerate(question_names), from index i on (i is
\* counted from 1 here, from 0 in the source).  "next": the loop ended without
\* a return.
RECURSIVE match_loop(_, _, _, _)
match_loop(questions, names, answer, i) ==
  IF i > Len(names)
  THEN [kind |-> "next"]
  ELSE IF not_in_form(answer["question"], names)
  THEN Return(Error400(ErrNotInForm))
  ELSE IF ~Has(questions[i], "answers")
  THEN Return(Error400(ErrBlank))           \* KeyError, caught by the except
  ELSE IF answer["question"] = names[i]
  THEN [kind |-> "update", i |-> i,
        answers_found |-> Append(questions[i]["answers"], answer["answer"])]
  ELSE match_loop(questions, names, answer, i + 1)

\* for answer in answers, from entry k on.  A handler that falls off the end
\* of the loop returns None: 200 with a null body.
RECURSIVE answer_loop(_, _, _)
answer_loop(questions, answers, k) ==
  IF k > Len(answers)
  THEN Return(Ok(None))
  ELSE LET answer == answers[k]
       IN IF answer.type # "dict"
          THEN Return(Error400(ErrNotDict))
          ELSE IF ~Has(answer.val, "question")
          THEN Return(Error400(ErrBlank))   \* KeyError, caught by the except
          ELSE IF answer.val["question"] = ""
          THEN Return(Error400(ErrBlank))
          ELSE IF ~Has(answer.val, "answer")
          THEN Return(Error400(ErrBlank))   \* KeyError, caught by the except
          ELSE IF answer.val["answer"] = ""
          THEN Return(Error400(ErrBlank))
          ELSE IF Len(questions) = 0
          THEN Return(Error400(ErrNoQuestions))
          ELSE LET r == match_loop(questions, question_names(questions),
                                   answer.val, 1)
               IN IF r.kind = "next"
                  THEN answer_loop(questions, answers, k + 1)
                  ELSE r

\* What answer_form does with the document find_one gave it, up to its first
\* return or its update_one.
answer_form_outcome(form_founded, answers) ==
  IF form_founded = None
  THEN Return(Unhandled("TypeError"))       \* form_founded["questions"] on None
  ELSE IF ~Has(form_founded, "questions")
  THEN Return(Unhandled("KeyError"))
  ELSE IF Len(answers) = 0
  THEN Return(Error400(ErrAnswersBlank))
  ELSE answer_loop(form_founded["questions"], answers, 1)

answer_form_find(w, form_id, answers) ==
  LET form_founded == find_form(form_id)
      l == [op |-> "answer_form", form_id |-> form_id, answers |-> answers,
            form_founded |-> form_founded]
      r == answer_form_outcome(form_founded, answers)
  IN /\ Accept(w)
     /\ UNCHANGED <<users, forms>>
     /\ IF r.kind = "return"
        THEN Respond(w, l, r.resp)
        ELSE Goto(w, SetField(SetField(l, "i", r.i),
                              "answers_found", r.answers_found),
                  "answer_form_update")

\* update_one({"id": form_id}, {"$set": {"questions.<i>.answers": answers_found}})
\* and the reply: the Form as read, with the answer appended (answers_found is
\* the list inside form_founded, not a copy).
answer_form_update(w) ==
  LET l == loc[w]
      questions == [l.form_founded["questions"] EXCEPT
                      ![l.i] = SetField(@, "answers", l.answers_found)]
      body == SetField(SetField(l.form_founded, "questions", questions),
                       "_id", Str(l.form_founded["_id"]))
  IN /\ pc[w] = "answer_form_update"
     /\ forms' = update_one_answers(forms, "id", l.form_id, l.i, l.answers_found)
     /\ UNCHANGED <<users, budget>>
     /\ Respond(w, l, Ok(body))

answer_form(w) ==
  IF pc[w] = "idle"
  THEN \E form_id \in FormIds \ {EmptyStr}, answers \in Batches :
         answer_form_find(w, form_id, answers)
  ELSE answer_form_update(w)

\* ------------------------------------------------------------ specifications
\* The server started on an empty database.
Init ==
  /\ users = <<>>
  /\ forms = <<>>
  /\ pc = [w \in Workers |-> "idle"]
  /\ loc = [w \in Workers |-> Idle]
  /\ last = [op |-> "none", loc |-> Idle, resp |-> Ok(NoBody)]
  /\ budget = MaxRequests

Next ==
  \E w \in Workers :
    \/ register_user(w)
    \/ login_user(w)
    \/ get_user(w)
    \/ post_form(w)
    \/ add_question(w)
    \/ answer_form(w)

Spec == Init /\ [][Next]_vars

\* The server started on a database that holds a User and one Form of the
\* documented shape (public id equal to the text of the store identifier,
\* questions each carrying name and answers).
SeedUser == [_id |-> ObjectId(1), username |-> "u1", password |-> Hash("p1")]

SeedQuestion(name) == [name |-> name, answers |-> <<>>]

SeedQuestions ==
  {<<>>, <<SeedQuestion("q1")>>, <<SeedQuestion("q1"), SeedQuestion("q2")>>}

SeedForm(questions) ==
  [_id |-> ObjectId(2), id |-> Str(ObjectId(2)), author |-> "u1", name |-> "n1",
   description |-> "", questions |-> questions]

InitSeeded ==
  /\ users = <<SeedUser>>
  /\ \E questions \in SeedQuestions : forms = <<SeedForm(questions)>>
  /\ pc = [w \in Workers |-> "idle"]
  /\ loc = [w \in Workers |-> Idle]
  /\ last = [op |-> "none", loc |-> Idle, resp |-> Ok(NoBody)]
  /\ budget = MaxSeededRequests

SpecSeeded == InitSeeded /\ [][Next]_vars

\* ================================================================== claims
\* A request returns in this step: at once, where it was accepted, or after
\* its last collection operation.  The request is then last'.
ReturnsAtOnce == budget' # budget /\ pc' = pc
ReturnsLater == \E w \in Workers : pc[w] # "idle" /\ pc'[w] = "idle"
Returns(op) == (ReturnsAtOnce \/ ReturnsLater) /\ last'.op = op

AllIdle == \A w \in Workers : pc[w] = "idle"

HasRecord(username) == \E i \in 1..Len(users) : users[i]["username"] = username

\* The texts of the store identifiers of the stored Forms: what post_form
\* hands out as "_id".
StoredIds == {Str(forms[i]["_id"]) : i \in 1..Len(forms)}

StoredForm(form_id) ==
  forms[CHOOSE i \in 1..Len(forms) : Str(forms[i]["_id"]) = form_id]

IsPrefix(s, t) == Len(s) <= Len(t) /\ \A k \in 1..Len(s) : s[k] = t[k]

IndexOf(x, s) == CHOOSE i \in 1..Len(s) : s[i] = x /\ \A j \in 1..(i - 1) : s[j] # x

AnswersOf(question) == IF Has(question, "answers") THEN question["answers"] ELSE <<>>

\* The last request was answer_form and its lookup found a Form with a
\* questions array.
AnsweredOnForm ==
  /\ last.op = "answer_form"
  /\ last.loc.form_founded # None
  /\ Has(last.loc.form_founded, "questions")

\* ---------------------------------------------------------------------- C1
\* C1: in the run register -> create -> addQuestion(form's id, q) ->
\* submitAnswers(form's id, [{q, a}]) every step succeeds and the stored
\* Form's question q ends up with the answers [a]: register of a new username
\* and create by a registered author with a non-empty name return 200; an
\* addQuestion sent with the identifier of a stored Form returns 200 (or
\* DuplicateQuestion when q is there already); a submitAnswers with one
\* well-formed entry naming a Question of the Form returns 200 with the answer
\* appended.  The run is sequential: no other request is in progress.
C1_EndToEnd ==
  AllIdle =>
  /\ (last.op = "register_user" /\ last.loc.user_founded = None)
       => last.resp.status = 200
  /\ (last.op = "post_form" /\ last.loc.user_founded # None
        /\ last.loc.form.name # "")
       => last.resp.status = 200
  /\ (last.op = "add_question" /\ last.loc.question.form_id \in StoredIds)
       => (last.resp.status = 200 \/ last.resp.error = ErrAnotherQuestion)
  /\ (/\ AnsweredOnForm
      /\ Len(last.loc.answers) = 1
      /\ last.loc.answers[1] \in WellFormed
      /\ InSeq(last.loc.answers[1].val["question"],
               question_names(last.loc.form_founded["questions"])))
       => LET entry == last.loc.answers[1].val
              before == last.loc.form_founded["questions"]
              j == IndexOf(entry["question"], question_names(before))
          IN /\ last.resp.status = 200
             /\ last.resp.body["questions"][j]["answers"]
                  = Append(AnswersOf(before[j]), entry["answer"])

\* ---------------------------------------------------------------------- C2
\* C2: after a successful create the persisted Form has a field id equal to
\* the text of its store identifier, the returned Form includes that id, and
\* the lookup by id that add_question and answer_form make finds that Form.
C2_PublicId ==
  (last.op = "post_form" /\ last.resp.status = 200)
    => LET body == last.resp.body
           stored == StoredForm(body["_id"])
       IN /\ Has(stored, "id")
          /\ stored["id"] = Str(stored["_id"])
          /\ Has(body, "id")
          /\ body["id"] = stored["id"]
          /\ find_form(Str(stored["_id"])) = stored

\* ---------------------------------------------------------------------- C3
\* C3: for an existing username, get_user returns exactly the stored Forms
\* whose author is that username (an empty list when there are none), never an
\* error.  (Stated for a get_user that runs while no other request is in
\* progress.)
C3_ListByAuthor ==
  [][\A w \in Workers :
       (pc[w] = "get_user_find" /\ pc'[w] = "idle" /\ AllIdle')
         => /\ last'.resp.status = 200
            /\ {last'.resp.body[i]["_id"] : i \in 1..Len(last'.resp.body)}
                 = {Str(forms[i]["_id"]) :
                      i \in {n \in 1..Len(forms) :
                               forms[n]["author"] = loc[w].username}}]_vars

\* ---------------------------------------------------------------------- C4
\* No two Questions of a stored Form share a name.
UniqueNames ==
  \A i \in 1..Len(forms) :
    Has(forms[i], "questions")
      => \A a, b \in 1..Len(forms[i]["questions"]) :
           a # b => forms[i]["questions"][a]["name"] # forms[i]["questions"][b]["name"]

C5_FormNotFound ==
  (last.op = "answer_form" /\ last.loc.form_founded = None)
    => last.resp = Error400(ErrFormNotFound)

FirstWellFormed(answers) ==
  answers[CHOOSE k \in 1..Len(answers) :
            /\ answers[k] \in WellFormed
            /\ \A n \in 1..(k - 1) : answers[n] \notin WellFormed]

C9_Register ==
  [][/\ \A w \in Workers :
          (pc[w] = "idle" /\ pc'[w] = "register_insert")
            => ~HasRecord(loc'[w].username)
     /\ (ReturnsAtOnce /\ last'.op = "register_user")
          => /\ HasRecord(last'.loc.username)
             /\ last'.resp = Error400(ErrUsernameFound)
             /\ users' = users
     /\ \A w \in Workers :
          (pc[w] = "register_insert" /\ pc'[w] = "idle")
            => /\ last'.resp.status = 200
               /\ Len(users') = Len(users) + 1
               /\ SubSeq(users', 1, Len(users)) = users
               /\ users'[Len(users')]["username"] = loc[w].username
               /\ users'[Len(users')]["password"] = Hash(loc[w].password)]_vars

\* A second register_user for a stored username was refused.
C9_Witness ==
  /\ last.op = "register_user"
  /\ last.resp = Error400(ErrUsernameFound)
  /\ Len(users) = 1

\* --------------------------------------------------------------------- C10
\* C10: every stored Form has a non-empty name and an author that is the
\* username of a stored User; a post_form whose author has no record returns
\* UserNotFound and one with an empty name returns BlankName.
C10_FormsValid ==
  /\ \A i \in 1..Len(forms) :
       /\ forms[i]["name"] # ""
       /\ HasRecord(forms[i]["author"])
  /\ last.op = "post_form"
       => /\ last.loc.user_founded = None
               => last.resp = Error400(ErrUserNotFound)
          /\ (last.loc.user_founded # None /\ last.loc.form.name = "")
               => last.resp = Error400(ErrBlankName)

\* A Form is stored and a post_form with an empty name was refused.
C10_Witness ==
  /\ Len(forms) >= 1
  /\ last.op = "post_form"
  /\ last.resp = Error400(ErrBlankName)

====
